---- MODULE Spec2Model ----
(***************************************************************************)
(* Model of src/src/utils/intrinsic_initializer.cc: the three intrinsic    *)
(* initializers initialize_pinhole_camera,                                 *)
(* initialize_radial_undistortion_camera and initialize_doublesphere_model.*)
(*                                                                         *)
(* The theia robust estimators and the theia camera model are external:    *)
(* their results are nondeterministic choices over small sets.  Doubles    *)
(* are integers: squared pixel errors in whole units, gamma and focal      *)
(* lengths in hundredths.  A ransac summary is the size of its inlier set. *)
(* A rotation is a number of quarter turns about the optical axis, a       *)
(* position or translation a pair of integers.                             *)
(***************************************************************************)
EXTENDS Integers, FiniteSets, Sequences, TLC

VARIABLES
  pc,                \* "idle", "ds_loop" (inside the row loop), "returned"
  fn,                \* the initializer that was called
  n_corr,            \* correspondences.size()
  id_to_corner,      \* key set of the id -> corner map (lines 79-82)
  target_rows,       \* charucoboard->getChessboardSize().height
  ransac_summary,    \* ransac_summary.inliers.size(), caller owned
  rotation, position, focal_length, radial_distortion,   \* caller owned outputs
  ret,               \* the returned bool, "none" before the return
  success,           \* local `success` of the running initializer
  r,                 \* row loop counter
  gamma0, min_reproj_error,                \* locals, lines 89-90
  C,                 \* this iteration's SVD null vector (line 129), NoC when not computed
  in_image,          \* this iteration's in_image (line 185), 0 when not computed
  est_calls,         \* number of robust estimator invocations so far
  hist,              \* per processed row: the estimator run and the candidate it
                     \* offered to the comparison of line 203, if any
  bestRow,           \* the row whose candidate was recorded last, NoRow if none
  entry              \* the caller owned values at call entry

vars == <<pc, fn, n_corr, id_to_corner, target_rows, ransac_summary, rotation,
          position, focal_length, radial_distortion, ret, success, r, gamma0,
          min_reproj_error, C, in_image, est_calls, hist, bestRow, entry>>

\* ---------------------------------------------------------------- bounds
MaxTargetRows == 2
TargetCols == 10
ImgCols == 4
ImgRows == 3

\* ------------------------------------------------------ program constants
MIN_CORNERS == 8
MIN_INLIERS == 10
MIN_RADIAL_CORRESPONDENCES == 4
MAX_REPROJ_ERROR == 1000
DBL_MAX == 1000000000

NaN == 0 - 1          \* a double that is not a number (gamma is never negative)
NoC == <<>>
NoRow == 0 - 1
NoRun == [ran |-> FALSE]
NoCand == [offered |-> FALSE]

\* ------------------------------------------------------------ arithmetic
Sq(x) == x * x

RECURSIVE Bisect(_, _, _)
Bisect(n, lo, hi) ==
  IF hi - lo <= 1 THEN lo
  ELSE LET mid == (lo + hi) \div 2
       IN IF Sq(mid) <= n THEN Bisect(n, mid, hi) ELSE Bisect(n, lo, mid)

RECURSIVE Above(_, _)
Above(n, h) == IF Sq(h) > n THEN h ELSE Above(n, 2 * h)

\* floor of the square root
ISqrt(n) == Bisect(n, 0, Above(n, 1))

\* 0.5 * x
Half(x) == IF x = NaN THEN NaN ELSE x \div 2

\* position = -R^T * t, R a rotation by q quarter turns
NegRt(q, t) ==
  CASE q % 4 = 0 -> <<0 - t[1], 0 - t[2]>>
    [] q % 4 = 1 -> <<0 - t[2], t[1]>>
    [] q % 4 = 2 -> <<t[1], t[2]>>
    [] q % 4 = 3 -> <<t[2], 0 - t[1]>>

\* ---------------------------------------------- the external estimators
Rotations == {1, 2}
Points == {<<1, 0>>, <<0, 2>>}
Focals == {40000, 80000}
Distortions == {0 - 3, 5}
InlierCounts == {0, MIN_INLIERS - 1, MIN_INLIERS}

\* an inlier set indexes the correspondences it was computed from
Inliers(n) == {k \in InlierCounts : k <= n}

\* theia::EstimateUncalibratedAbsolutePose
UncalibratedOutcomes(n) ==
  [success : BOOLEAN, rotation : Rotations, position : Points,
   focal_length : Focals, inliers : Inliers(n)]

\* theia::EstimateRadialDistUncalibratedAbsolutePose
RadialOutcomes(n) ==
  [success : BOOLEAN, rotation : Rotations, translation : Points,
   focal_length : Focals, radial_distortion : Distortions, inliers : Inliers(n)]

\* theia::EstimateCalibratedAbsolutePose
Poses == {[rotation |-> 1, position |-> <<1, 0>>], [rotation |-> 2, position |-> <<0, 2>>]}
CalibratedOutcomes(n) == [pose : Poses, inliers : Inliers(n) \ {0}]

\* ----------------------------------------------------------------- Init
CallerFocals == {0, 77700}
CallerSummaries == {0, MIN_INLIERS + 2}
Correspondences == {3, 4, 5, 12}

Init ==
  /\ pc = "idle"
  /\ fn = "none"
  /\ n_corr = 0
  /\ id_to_corner = {}
  /\ target_rows = 0
  /\ ransac_summary \in CallerSummaries
  /\ rotation = 0
  /\ position = <<0, 0>>
  /\ focal_length \in CallerFocals
  /\ radial_distortion = 0
  /\ ret = "none"
  /\ success = FALSE
  /\ r = 0
  /\ gamma0 = 0
  /\ min_reproj_error = DBL_MAX
  /\ C = NoC
  /\ in_image = 0
  /\ est_calls = 0
  /\ hist = <<>>
  /\ bestRow = NoRow
  /\ entry = [rotation |-> rotation, position |-> position,
              focal_length |-> focal_length,
              radial_distortion |-> radial_distortion,
              ransac_summary |-> ransac_summary]

dsLocals == <<id_to_corner, target_rows, r, gamma0, min_reproj_error, C,
              in_image, hist, bestRow>>

\* --------------------------------------------- initialize_pinhole_camera
\* the inlier threshold of lines 27-28 left out
ThresholdReturn_NoGate(inliers, ok) == ok

\* lines 27-29 and 62-64
ThresholdReturn(inliers, ok) == IF inliers < MIN_INLIERS THEN FALSE ELSE ok

InitializePinholeCamera ==
  /\ pc = "idle"
  /\ \E n \in Correspondences : \E o \in UncalibratedOutcomes(n) :
       /\ n_corr' = n
       /\ success' = o.success
       /\ ransac_summary' = o.inliers
       /\ rotation' = o.rotation
       /\ position' = o.position
       /\ focal_length' = o.focal_length
       /\ ret' = ThresholdReturn(o.inliers, o.success)
  /\ est_calls' = est_calls + 1
  /\ fn' = "pinhole"
  /\ pc' = "returned"
  /\ UNCHANGED <<radial_distortion, entry>>
  /\ UNCHANGED dsLocals

\* --------------------------------- initialize_radial_undistortion_camera
\* line 39 with < in place of <=
TooFewCorrespondences_OffByOne(n) == n < MIN_RADIAL_CORRESPONDENCES

\* line 39
TooFewCorrespondences(n) == n <= MIN_RADIAL_CORRESPONDENCES

InitializeRadialUndistortionCamera ==
  /\ pc = "idle"
  /\ fn' = "radial"
  /\ pc' = "returned"
  /\ \E n \in Correspondences :
       /\ n_corr' = n
       /\ IF TooFewCorrespondences(n)
          THEN /\ ret' = FALSE
               /\ UNCHANGED <<success, ransac_summary, rotation, position,
                              focal_length, radial_distortion, est_calls>>
          ELSE \E o \in RadialOutcomes(n) :
               /\ est_calls' = est_calls + 1
               /\ success' = o.success
               /\ ransac_summary' = o.inliers
               /\ rotation' = o.rotation
               /\ position' = NegRt(o.rotation, o.translation)
               /\ radial_distortion' = o.radial_distortion
               /\ focal_length' = o.focal_length
               /\ ret' = ThresholdReturn(o.inliers, o.success)
  /\ UNCHANGED entry
  /\ UNCHANGED dsLocals

\* ------------------------------------------ initialize_doublesphere_model
\* the observed columns of one target row
ColPatterns ==
  { 0 .. (MIN_CORNERS - 1),        \* 8 corners, columns 0..7
    1 .. (MIN_CORNERS + 1) }       \* 9 corners, columns 1..9

\* lines 101-103: the columns c of row `row` whose corner id was observed
RowCorners(ids, row) == {c \in 0 .. (TargetCols - 1) : (row * TargetCols + c) \in ids}

\* P.size() after the column loop, lines 100-109
PSize(ids, row) == Cardinality(RowCorners(ids, row))

\* line 112 with >= in place of >
EnoughCorners_OffByOne(psize) == psize >= MIN_CORNERS

\* line 112
EnoughCorners(psize) == psize > MIN_CORNERS

\* svd.matrixV().col(3), line 129, up to a positive scale (every use below
\* is invariant under scaling C)
NullVectors ==
  { <<0, 0, 4, 1>>,       \* t = 4, hypot = 0
    <<19, 0, 39, 1>>,     \* t = 400, hypot = 0.95 exactly
    <<4, 0, 1, 1>>,       \* t = 17, hypot = 0.97
    <<1, 0, 0 - 2, 1>>,   \* t = -1
    <<1, 0, 0 - 1, 1>>,   \* t = 0, nx = inf
    <<0, 0, 0, 1>> }      \* t = 0, nx = ny = 0 * inf = NaN

\* line 133
T(c) == Sq(c[1]) + Sq(c[2]) + c[3] * c[4]

\* line 134
NegativeT(t) == t < 0

\* line 142 with 0.99 in place of 0.95
NearRadial_Loose(c) ==
  IF Sq(c[1]) + Sq(c[2]) + c[3] * c[4] = 0 THEN c[1] # 0 \/ c[2] # 0
  ELSE 10000 * (Sq(c[1]) + Sq(c[2])) > 9801 * (Sq(c[1]) + Sq(c[2]) + c[3] * c[4])

\* lines 139-142: hypot(nx, ny) > 0.95 with d = sqrt(1 / t), nx = C0 * d,
\* ny = C1 * d.  For t > 0 this is (C0^2 + C1^2) / t > 0.9025.  For t = 0,
\* d = inf: hypot is inf when C0 or C1 is not 0, and NaN (the comparison
\* false) when both are 0.
NearRadial(c) ==
  IF T(c) = 0 THEN c[1] # 0 \/ c[2] # 0
  ELSE 10000 * (Sq(c[1]) + Sq(c[2])) > 9025 * T(c)

\* lines 147-148: gamma = |C2 * d / nz|, nz = sqrt(1 - nx^2 - ny^2), that is
\* gamma^2 = C2^2 / (t - C0^2 - C1^2); in hundredths.  NaN for t = 0.
Gamma(c) ==
  IF T(c) = 0 THEN NaN
  ELSE ISqrt((10000 * Sq(c[3])) \div (T(c) - Sq(c[1]) - Sq(c[2])))

\* cam.ProjectPoint for every correspondence, lines 186-189: the first k
\* correspondences project to pixel a.px with squared error a.err against
\* their observation, the others to a pixel outside the image
InSamples ==
  { [px |-> <<0, 0>>, err |-> 90],
    [px |-> <<1, 1>>, err |-> 500],
    [px |-> <<ImgCols - 1, ImgRows - 1>>, err |-> 1000] }

OutSamples ==
  { [px |-> <<ImgCols, 0>>, err |-> 1],
    [px |-> <<0, ImgRows>>, err |-> 1],
    [px |-> <<0 - 1, 0>>, err |-> 1],
    [px |-> <<0, 0 - 1>>, err |-> 1] }

Projections(n) ==
  [k : {MIN_CORNERS, MIN_CORNERS + 1, MIN_CORNERS + 2} \cap (0 .. n),
   a : InSamples \cup OutSamples, b : OutSamples]

\* lines 190-191
InImage(px) == px[1] >= 0 /\ px[2] >= 0 /\ px[1] < ImgCols /\ px[2] < ImgRows

\* in_image after the loop of lines 186-195
CountInImage(p, n) ==
  (IF InImage(p.a.px) THEN p.k ELSE 0) + (IF InImage(p.b.px) THEN n - p.k ELSE 0)

\* repro_error after the loop of lines 186-195
ReproError(p, n) ==
  (IF InImage(p.a.px) THEN p.k * p.a.err ELSE 0)
    + (IF InImage(p.b.px) THEN (n - p.k) * p.b.err ELSE 0)

\* what the loop of lines 186-195 can leave in in_image and repro_error.  A
\* NaN focal length projects every point to NaN, and line 190 is then false.
Reprojections(gamma, n) ==
  IF gamma = NaN THEN {[in_image |-> 0, repro_error |-> 0]}
  ELSE {[in_image |-> CountInImage(p, n), repro_error |-> ReproError(p, n)] :
          p \in Projections(n)}

\* line 200 with MIN_CORNERS counted as 8 "or more"
EnoughInImage_OffByOne(cnt) == cnt >= MIN_CORNERS

\* line 200
EnoughInImage(cnt) == cnt > MIN_CORNERS

\* line 203 with <= in place of the first <
IsNewBest_OrEqual(avg, best) == avg <= best /\ avg < MAX_REPROJ_ERROR

\* line 203 without the absolute ceiling
IsNewBest_NoCeiling(avg, best) == avg < best

\* line 203
IsNewBest(avg, best) == avg < best /\ avg < MAX_REPROJ_ERROR

\* lines 219-220 left out
DSReturnValue_NoGate(inliers, ok) == ok

\* line 219 with <= in place of <
DSReturnValue_OffByOne(inliers, ok) == IF inliers <= MIN_INLIERS THEN FALSE ELSE ok

\* lines 219-221
DSReturnValue(inliers, ok) == IF inliers < MIN_INLIERS THEN FALSE ELSE ok

\* lines 79-95
DSEnter ==
  /\ pc = "idle"
  /\ fn' = "doublesphere"
  /\ pc' = "ds_loop"
  /\ \E rows \in 1 .. MaxTargetRows : \E obs \in [0 .. (rows - 1) -> ColPatterns] :
       LET ids == UNION {{row * TargetCols + c : c \in obs[row]} : row \in 0 .. (rows - 1)}
       IN /\ target_rows' = rows
          /\ id_to_corner' = ids
          /\ n_corr' = Cardinality(ids)
  /\ gamma0' = 0
  /\ min_reproj_error' = DBL_MAX
  /\ success' = FALSE
  /\ r' = 0
  /\ UNCHANGED <<ransac_summary, rotation, position, focal_length, radial_distortion,
                 ret, C, in_image, est_calls, hist, bestRow, entry>>

best == <<rotation, position, focal_length, gamma0, min_reproj_error, success, bestRow>>

\* lines 97-112: a row with too few observed corners
DSRowTooFewCorners ==
  /\ pc = "ds_loop"
  /\ r < target_rows
  /\ ~EnoughCorners(PSize(id_to_corner, r))
  /\ r' = r + 1
  /\ C' = NoC
  /\ in_image' = 0
  /\ hist' = Append(hist, NoRun)
  /\ UNCHANGED <<pc, fn, n_corr, id_to_corner, target_rows, ransac_summary,
                 radial_distortion, ret, est_calls, entry>>
  /\ UNCHANGED best

\* lines 97-145: a row whose fit is skipped (t < 0 or a near-radial line)
DSRowDegenerate ==
  /\ pc = "ds_loop"
  /\ r < target_rows
  /\ EnoughCorners(PSize(id_to_corner, r))
  /\ \E c \in NullVectors :
       /\ NegativeT(T(c)) \/ NearRadial(c)
       /\ C' = c
  /\ r' = r + 1
  /\ in_image' = 0
  /\ hist' = Append(hist, NoRun)
  /\ UNCHANGED <<pc, fn, n_corr, id_to_corner, target_rows, ransac_summary,
                 radial_distortion, ret, est_calls, entry>>
  /\ UNCHANGED best

\* lines 97-217: a row that reaches the robust estimator
DSRowEstimate ==
  /\ pc = "ds_loop"
  /\ r < target_rows
  /\ EnoughCorners(PSize(id_to_corner, r))
  /\ \E c \in NullVectors :
       /\ ~NegativeT(T(c))
       /\ ~NearRadial(c)
       /\ C' = c
       /\ \E p \in Reprojections(Gamma(c), n_corr) : \E o \in CalibratedOutcomes(n_corr) :
            LET gamma == Gamma(c)
                offered == EnoughInImage(p.in_image)
                avg == IF offered THEN p.repro_error \div p.in_image ELSE 0
            IN /\ ransac_summary' = o.inliers
               /\ in_image' = p.in_image
               /\ hist' = Append(hist,
                            [ran |-> TRUE, inliers |-> o.inliers,
                             cand |-> IF offered
                                      THEN [offered |-> TRUE, avg |-> avg,
                                            pose |-> o.pose, gamma |-> gamma]
                                      ELSE NoCand])
               /\ IF offered /\ IsNewBest(avg, min_reproj_error)
                  THEN /\ min_reproj_error' = avg
                       /\ gamma0' = gamma
                       /\ success' = TRUE
                       /\ rotation' = o.pose.rotation
                       /\ position' = o.pose.position
                       /\ focal_length' = Half(gamma)
                       /\ bestRow' = r
                  ELSE UNCHANGED best
  /\ est_calls' = est_calls + 1
  /\ r' = r + 1
  /\ UNCHANGED <<pc, fn, n_corr, id_to_corner, target_rows, radial_distortion,
                 ret, entry>>

\* lines 219-221
DSReturn ==
  /\ pc = "ds_loop"
  /\ r >= target_rows
  /\ ret' = DSReturnValue(ransac_summary, success)
  /\ pc' = "returned"
  /\ UNCHANGED <<fn, n_corr, id_to_corner, target_rows, ransac_summary, rotation,
                 position, focal_length, radial_distortion, success, r, gamma0,
                 min_reproj_error, C, in_image, est_calls, hist, bestRow, entry>>

Next ==
  \/ InitializePinholeCamera
  \/ InitializeRadialUndistortionCamera
  \/ DSEnter
  \/ DSRowTooFewCorners
  \/ DSRowDegenerate
  \/ DSRowEstimate
  \/ DSReturn

Spec == Init /\ [][Next]_vars

\* ================================================================ claims
Returned(f) == pc = "returned" /\ fn = f

\* rows (as indices of hist) that ran the robust estimator
RanRows == {i \in 1 .. Len(hist) : hist[i].ran}

\* rows that offered a candidate to the comparison of line 203
OfferedRows == {i \in RanRows : hist[i].cand.offered}

SetMax(S) == CHOOSE x \in S : \A y \in S : y <= x

\* the inlier count the last estimator run wrote, or the caller's
LastWrittenSummary ==
  IF RanRows = {} THEN entry.ransac_summary ELSE hist[SetMax(RanRows)].inliers

OutputsAsAtEntry ==
  /\ rotation = entry.rotation
  /\ position = entry.position
  /\ focal_length = entry.focal_length

\* C1: initialize_pinhole_camera, and initialize_radial_undistortion_camera
\* called with at least 5 correspondences, return true exactly when the
\* estimator reported success and the summary it wrote has at least 10 inliers.
C1_ReturnIsSuccessAndTenInliers ==
  (pc = "returned" /\ (fn = "pinhole" \/ (fn = "radial" /\ n_corr >= 5)))
    => /\ est_calls = 1
       /\ ret = (success /\ ransac_summary >= 10)

C1_Witness ==
  /\ Returned("radial")
  /\ n_corr >= 5
  /\ success
  /\ ransac_summary = 9
  /\ ret = FALSE

\* C2: with fewer than 5 correspondences initialize_radial_undistortion_camera
\* returns false, does not invoke the estimator and leaves rotation, position,
\* focal length, radial distortion and the inlier summary as at call entry.
C2_TooFewLeavesEverything ==
  (Returned("radial") /\ n_corr < 5)
    => /\ ret = FALSE
       /\ est_calls = 0
       /\ OutputsAsAtEntry
       /\ radial_distortion = entry.radial_distortion
       /\ ransac_summary = entry.ransac_summary

C2_Witness ==
  /\ Returned("radial")
  /\ n_corr = 4
  /\ ret = FALSE
  /\ ransac_summary = 12

\* C3: whenever an initializer returns true, the estimator run that produced
\* the returned rotation, position and focal length had at least 10 inliers
\* (for the wide-angle initializer: the run of the winning row).
C3_ReturnedEstimateHasTenInliers ==
  (pc = "returned" /\ ret = TRUE)
    => IF fn = "doublesphere"
       THEN bestRow # NoRow /\ hist[bestRow + 1].inliers >= 10
       ELSE ransac_summary >= 10

\* C4 as stated: whenever a row was recorded as the best candidate, the
\* wide-angle initializer returns true.
C4_RecordedImpliesTrue ==
  (Returned("doublesphere") /\ bestRow # NoRow) => ret = TRUE

\* C4 amended: whenever a row was recorded as the best candidate and the
\* summary left by the last estimator run has at least 10 inliers, the
\* wide-angle initializer returns true, whatever happened in the other rows.
C4_RecordedAndLastRunTenImpliesTrue ==
  (Returned("doublesphere") /\ bestRow # NoRow /\ LastWrittenSummary >= 10)
    => ret = TRUE

C4_Witness ==
  /\ Returned("doublesphere")
  /\ bestRow = 0
  /\ target_rows = 2
  /\ ~hist[2].ran
  /\ C # NoC
  /\ ret = TRUE

\* C5: a target row with fewer than 9 observed corner ids r*cols+c does not
\* invoke the estimator, does not touch the inlier summary and leaves the
\* best candidate unchanged; the recorded candidate always comes from a row
\* with at least 9 observed corners.
C5_FewCornersRowContributesNothing ==
  /\ [](bestRow # NoRow => PSize(id_to_corner, bestRow) >= 9)
  /\ [][(pc = "ds_loop" /\ r' = r + 1 /\ PSize(id_to_corner, r) < 9)
          => /\ est_calls' = est_calls
             /\ ransac_summary' = ransac_summary
             /\ UNCHANGED best]_vars

C5_Witness ==
  /\ Returned("doublesphere")
  /\ target_rows = 2
  /\ PSize(id_to_corner, 0) = 8
  /\ PSize(id_to_corner, 1) = 9
  /\ bestRow = 1
  /\ ret = TRUE

\* t < 0 or hypot(nx, ny) > 0.95, as the claim states it
DegenerateFit(c) ==
  LET t == Sq(c[1]) + Sq(c[2]) + c[3] * c[4]
      h2 == Sq(c[1]) + Sq(c[2])
  IN \/ t < 0
     \/ t > 0 /\ 10000 * h2 > 9025 * t
     \/ t = 0 /\ h2 > 0

\* rows with at least 9 observed corners
FitRows == {i \in 1 .. Len(hist) : PSize(id_to_corner, i - 1) >= 9}

\* C6: a row whose fit has t < 0 or hypot(nx, ny) > 0.95 is skipped before
\* the estimator is invoked and never becomes the best candidate; if every
\* row with at least 9 observed corners is skipped this way, the call
\* returns false.
C6_DegenerateRowSkipped ==
  /\ []((Returned("doublesphere") /\ \A i \in FitRows : ~hist[i].ran) => ret = FALSE)
  /\ [][(pc = "ds_loop" /\ r' = r + 1 /\ C' # NoC /\ DegenerateFit(C'))
          => /\ est_calls' = est_calls
             /\ ransac_summary' = ransac_summary
             /\ hist' = Append(hist, NoRun)
             /\ UNCHANGED best]_vars

C6_Witness ==
  /\ Returned("doublesphere")
  /\ target_rows = 2
  /\ FitRows = {2}
  /\ C = <<4, 0, 1, 1>>
  /\ est_calls = 0
  /\ ret = FALSE

\* C7: if every row is skipped or fails the in-image or mean-error
\* threshold, the wide-angle initializer returns false and rotation,
\* position and focal length are as the caller supplied them.
C7_NoCandidateLeavesOutputs ==
  (Returned("doublesphere")
     /\ \A i \in OfferedRows : hist[i].cand.avg >= 1000)
    => ret = FALSE /\ OutputsAsAtEntry

C7_Witness ==
  /\ Returned("doublesphere")
  /\ OfferedRows # {}
  /\ RanRows # OfferedRows
  /\ \A i \in OfferedRows : hist[i].cand.avg >= 1000
  /\ LastWrittenSummary >= 10
  /\ focal_length = 77700
  /\ ret = FALSE

\* offered rows with mean error below the ceiling
QualifiedRows == {i \in OfferedRows : hist[i].cand.avg < 1000}

\* the lowest row among those of minimum mean error
WinningRow ==
  CHOOSE i \in QualifiedRows :
    \A j \in QualifiedRows :
      \/ hist[i].cand.avg < hist[j].cand.avg
      \/ hist[i].cand.avg = hist[j].cand.avg /\ i <= j

\* C8: a candidate is recorded exactly when some row passed every gate with
\* mean error below 1000; rotation, position and focal length then all come
\* from the lowest row of minimum mean error, and focal length is 0.5 times
\* that row's gamma.
C8_BestIsLowestRowOfMinimumError ==
  fn = "doublesphere"
    => IF QualifiedRows = {}
       THEN ~success /\ bestRow = NoRow
       ELSE /\ success
            /\ bestRow = WinningRow - 1
            /\ min_reproj_error = hist[WinningRow].cand.avg
            /\ rotation = hist[WinningRow].cand.pose.rotation
            /\ position = hist[WinningRow].cand.pose.position
            /\ gamma0 = hist[WinningRow].cand.gamma
            /\ 2 * focal_length = hist[WinningRow].cand.gamma

C8_Witness ==
  /\ Returned("doublesphere")
  /\ QualifiedRows = {1, 2}
  /\ hist[1].cand.avg = hist[2].cand.avg
  /\ hist[1].cand.pose # hist[2].cand.pose
  /\ hist[1].cand.gamma # hist[2].cand.gamma
  /\ bestRow = 0

\* C9 as stated: a row's candidate is recorded as best only if in_image > 9;
\* a row with exactly 9 in-image reprojections is never recorded.
C9_RecordNeedsMoreThanNineInImage ==
  [][(pc = "ds_loop" /\ best' # best) => in_image' > 9]_vars

\* C9 amended: a row's candidate is recorded as best only if in_image > 8;
\* a row with exactly 8 in-image reprojections is never recorded.
C9_RecordNeedsMoreThanEightInImage ==
  [][(pc = "ds_loop" /\ best' # best) => in_image' > 8]_vars

C9_Witness ==
  /\ pc = "ds_loop"
  /\ r = 1
  /\ hist[1].ran
  /\ in_image = 8
  /\ ~success
  /\ OutputsAsAtEntry

\* C10: the wide-angle initializer returns true exactly when a candidate
\* was recorded and the summary written by the last estimator run in row
\* order (the caller's summary if none ran) has at least 10 inliers.
C10_FinalGateReadsLastRun ==
  Returned("doublesphere")
    => /\ ransac_summary = LastWrittenSummary
       /\ ret = (bestRow # NoRow /\ LastWrittenSummary >= 10)

C10_Witness ==
  /\ Returned("doublesphere")
  /\ bestRow = 0
  /\ hist[1].inliers >= 10
  /\ LastWrittenSummary < 10
  /\ rotation # entry.rotation
  /\ ret = FALSE
====
